---- MODULE Spec2Model ----
(***************************************************************************)
(* Task lifecycle, query and bulk-update model of the Express/Mongoose     *)
(* task API (routes/tasks.js and models/Task.js).                          *)
(*                                                                         *)
(* Every request handler is one action taken at the instant `now`; the     *)
(* wall clock advances only through Tick.  A handler leaves its response   *)
(* in `resp`, Respond sends it, and the next request is handled after      *)
(* that.  Dates are integers; a null date is NoDate and a field that the   *)
(* request does not carry is Undefined (integers) or "undefined" (strings).*)
(* justCompleted is a history variable: the tasks whose latest successful  *)
(* write is a PUT that set status to Completed.                            *)
(*                                                                         *)
(* The handlers that await the store twice are also given as two steps, a  *)
(* lookup and a write, with the requests between their two steps held in   *)
(* `inflight`.  The React TaskProvider of the Supabase client is modelled  *)
(* over the same variables: `tasks` is the table, `local` the tasks state  *)
(* of the provider and `inflight` its calls awaiting their continuation.   *)
(***************************************************************************)
EXTENDS Integers, Sequences, FiniteSets, TLC

VARIABLES tasks, nextId, now, resp, justCompleted, inflight, local

vars == <<tasks, nextId, now, resp, justCompleted, inflight, local>>

----------------------------------------------------------------------------
(* Bounds of the model *)

MaxTasks == 2
MaxTime == 2
MaxTotal == 57
MaxInflight == 2

(* Program constants *)

MaxTitleLen == 200
MaxDescriptionLen == 1000
DefaultPage == 1
DefaultLimit == 25
MaxLimit == 100
OneWeek == 7
ThirtyDays == 30

----------------------------------------------------------------------------
(* Values *)

Users == {"u1", "u2"}
Statuses == {"Pending", "In Progress", "Completed"}
Priorities == {"Low", "Medium", "High"}

NoDate == 0 - 1
Undefined == 0 - 2

Range(s) == {s[i] : i \in DOMAIN s}

Min(a, b) == IF a < b THEN a ELSE b

\* a slot of inflight that holds no request
Idle == [op |-> "none"]

NoResp ==
  [op |-> "none", kind |-> "none", user |-> "none", req |-> <<>>,
   id |-> 0, queries |-> 0, modifiedCount |-> 0,
   items |-> <<>>, total |-> 0, next |-> <<>>, prev |-> <<>>,
   statusCode |-> 0, message |-> "", stats |-> <<>>]

----------------------------------------------------------------------------
(* models/Task.js *)

\* deadline.validate.validator: value > new Date()
DeadlineValidator(value, t) == value > t

\* taskSchema.pre('save'): statusModified is this.isModified('status')
PreSave(doc, statusModified, t) ==
  IF statusModified
    THEN IF doc.status = "Completed" /\ doc.completedAt = NoDate
           THEN [doc EXCEPT !.completedAt = t]
           ELSE IF doc.status # "Completed"
                  THEN [doc EXCEPT !.completedAt = NoDate]
                  ELSE doc
    ELSE doc

\* a document whose owner is the user path of the body when it has one
NewDocumentFromBody(u, body, t) ==
  [user |-> IF body.user = "undefined" THEN u ELSE body.user,
   status |-> IF body.status = "undefined" THEN "Pending" ELSE body.status,
   deadline |-> body.deadline,
   priority |-> IF body.priority = "undefined" THEN "Medium" ELSE body.priority,
   completedAt |-> IF body.completedAt = Undefined THEN NoDate ELSE body.completedAt,
   createdAt |-> t]

\* new Task(body): schema defaults for the paths the body does not carry
NewDocument(u, body, t) ==
  [user |-> u,
   status |-> IF body.status = "undefined" THEN "Pending" ELSE body.status,
   deadline |-> body.deadline,
   priority |-> IF body.priority = "undefined" THEN "Medium" ELSE body.priority,
   completedAt |-> IF body.completedAt = Undefined THEN NoDate ELSE body.completedAt,
   createdAt |-> t]

\* Task.create(body): new document, pre('save') hook, schema validation
TaskCreate(u, body, t) == PreSave(NewDocument(u, body, t), body.status # "undefined", t)

----------------------------------------------------------------------------
(* routes/tasks.js: POST /api/tasks *)

CreateValidationOk(body) ==
  /\ body.title >= 1 /\ body.title <= MaxTitleLen
  /\ body.description >= 1 /\ body.description <= MaxDescriptionLen
  /\ body.deadline # Undefined
  /\ body.priority \in Priorities \cup {"undefined"}
  /\ body.status \in Statuses \cup {"undefined"}

CreateTask(u, body) ==
  /\ resp = NoResp
  /\ nextId <= MaxTasks
  /\ IF ~CreateValidationOk(body)
       THEN /\ resp' = [NoResp EXCEPT !.op = "create", !.kind = "ValidationError",
                                      !.statusCode = 400, !.message = "Validation failed",
                                      !.user = u, !.req = body]
            /\ UNCHANGED <<tasks, nextId>>
       ELSE IF body.deadline <= now
         THEN /\ resp' = [NoResp EXCEPT !.op = "create", !.kind = "ValidationError",
                                        !.statusCode = 400, !.message = "Deadline must be in the future",
                                        !.user = u, !.req = body]
              /\ UNCHANGED <<tasks, nextId>>
         ELSE IF ~DeadlineValidator(body.deadline, now)
           THEN /\ resp' = [NoResp EXCEPT !.op = "create", !.kind = "ValidationError",
                                          !.statusCode = 400, !.message = "Deadline must be in the future",
                                          !.user = u, !.req = body]
                /\ UNCHANGED <<tasks, nextId>>
           ELSE /\ tasks' = tasks @@ (nextId :> TaskCreate(u, body, now))
                /\ nextId' = nextId + 1
                /\ resp' = [NoResp EXCEPT !.op = "create", !.kind = "ok",
                                          !.statusCode = 201, !.message = "",
                                          !.user = u, !.req = body, !.id = nextId]
  /\ UNCHANGED <<now, justCompleted>>
  /\ UNCHANGED <<inflight, local>>

\* The same handler for a body that also carries the schema path _id, here
\* the identifier of a document that is no longer in the collection:
\* Task.create(req.body) inserts the document under the _id of the body
CreateTaskWithId(u, body, id) ==
  /\ resp = NoResp
  /\ id \in 1..(nextId - 1) /\ id \notin DOMAIN tasks
  /\ IF ~CreateValidationOk(body)
       THEN /\ resp' = [NoResp EXCEPT !.op = "create", !.kind = "ValidationError",
                                      !.statusCode = 400, !.message = "Validation failed",
                                      !.user = u, !.req = body, !.id = id]
            /\ UNCHANGED tasks
       ELSE IF body.deadline <= now \/ ~DeadlineValidator(body.deadline, now)
         THEN /\ resp' = [NoResp EXCEPT !.op = "create", !.kind = "ValidationError",
                                        !.statusCode = 400,
                                        !.message = "Deadline must be in the future",
                                        !.user = u, !.req = body, !.id = id]
              /\ UNCHANGED tasks
         ELSE /\ tasks' = tasks @@ (id :> TaskCreate(u, body, now))
              /\ resp' = [NoResp EXCEPT !.op = "create", !.kind = "ok",
                                        !.statusCode = 201, !.message = "",
                                        !.user = u, !.req = body, !.id = id]
  /\ UNCHANGED <<nextId, now, justCompleted>>
  /\ UNCHANGED <<inflight, local>>

----------------------------------------------------------------------------
(* routes/tasks.js: PUT /api/tasks/:id *)

UpdateValidationOk(body) ==
  /\ body.title = Undefined \/ (body.title >= 1 /\ body.title <= MaxTitleLen)
  /\ body.priority \in Priorities \cup {"undefined"}
  /\ body.status \in Statuses \cup {"undefined"}

\* a lookup by identifier alone
FindById(id, u) == id \in DOMAIN tasks

\* Task.findOne({ _id: id, user: u })
FindOwned(id, u) == id \in DOMAIN tasks /\ tasks[id].user = u

\* Task.findByIdAndUpdate(id, body, { new: true, runValidators: true }):
\* a $set of the schema paths the body carries; no save middleware runs
FindByIdAndUpdate(doc, body) ==
  [doc EXCEPT
     !.status = IF body.status = "undefined" THEN @ ELSE body.status,
     !.deadline = IF body.deadline = Undefined THEN @ ELSE body.deadline,
     !.priority = IF body.priority = "undefined" THEN @ ELSE body.priority,
     !.completedAt = IF body.completedAt = Undefined THEN @ ELSE body.completedAt,
     !.user = IF body.user = "undefined" THEN @ ELSE body.user]

\* a handler that writes the body without looking at its deadline
UpdateTaskAnyDeadline(u, id, body) ==
  /\ resp = NoResp
  /\ IF ~UpdateValidationOk(body)
       THEN /\ resp' = [NoResp EXCEPT !.op = "update", !.kind = "ValidationError",
                                      !.statusCode = 400, !.message = "Validation failed",
                                      !.user = u, !.req = body, !.id = id]
            /\ UNCHANGED <<tasks, justCompleted>>
       ELSE IF ~FindOwned(id, u)
         THEN /\ resp' = [NoResp EXCEPT !.op = "update", !.kind = "NotFound",
                                        !.statusCode = 404, !.message = "Task not found",
                                        !.user = u, !.req = body, !.id = id,
                                        !.queries = 1]
              /\ UNCHANGED <<tasks, justCompleted>>
         ELSE /\ tasks' = [tasks EXCEPT ![id] = FindByIdAndUpdate(@, body)]
              /\ justCompleted' = IF body.status = "Completed"
                                    THEN justCompleted \cup {id}
                                    ELSE justCompleted \ {id}
              /\ resp' = [NoResp EXCEPT !.op = "update", !.kind = "ok",
                                        !.statusCode = 200, !.message = "",
                                        !.user = u, !.req = body, !.id = id,
                                        !.queries = 2]
  /\ UNCHANGED <<nextId, now>>
  /\ UNCHANGED <<inflight, local>>

\* validationResult, Task.findOne, the deadline check, Task.findByIdAndUpdate
UpdateTask(u, id, body) ==
  /\ resp = NoResp
  /\ IF ~UpdateValidationOk(body)
       THEN /\ resp' = [NoResp EXCEPT !.op = "update", !.kind = "ValidationError",
                                      !.statusCode = 400, !.message = "Validation failed",
                                      !.user = u, !.req = body, !.id = id]
            /\ UNCHANGED <<tasks, justCompleted>>
       ELSE IF ~FindOwned(id, u)
         THEN /\ resp' = [NoResp EXCEPT !.op = "update", !.kind = "NotFound",
                                        !.statusCode = 404, !.message = "Task not found",
                                        !.user = u, !.req = body, !.id = id,
                                        !.queries = 1]
              /\ UNCHANGED <<tasks, justCompleted>>
         ELSE IF body.deadline # Undefined /\ body.deadline <= now
           THEN /\ resp' = [NoResp EXCEPT !.op = "update", !.kind = "ValidationError",
                                          !.statusCode = 400, !.message = "Deadline must be in the future",
                                          !.user = u, !.req = body, !.id = id,
                                          !.queries = 1]
                /\ UNCHANGED <<tasks, justCompleted>>
           ELSE IF body.deadline # Undefined /\ ~DeadlineValidator(body.deadline, now)
             THEN /\ resp' = [NoResp EXCEPT !.op = "update", !.kind = "ValidationError",
                                            !.statusCode = 400,
                                            !.message = "Deadline must be in the future",
                                            !.user = u, !.req = body, !.id = id,
                                            !.queries = 2]
                  /\ UNCHANGED <<tasks, justCompleted>>
             ELSE /\ tasks' = [tasks EXCEPT ![id] = FindByIdAndUpdate(@, body)]
                  /\ justCompleted' = IF body.status = "Completed"
                                        THEN justCompleted \cup {id}
                                        ELSE justCompleted \ {id}
                  /\ resp' = [NoResp EXCEPT !.op = "update", !.kind = "ok",
                                            !.statusCode = 200, !.message = "",
                                            !.user = u, !.req = body, !.id = id,
                                            !.queries = 2]
  /\ UNCHANGED <<nextId, now>>
  /\ UNCHANGED <<inflight, local>>

----------------------------------------------------------------------------
(* routes/tasks.js: DELETE /api/tasks/:id *)

\* Task.findOne, then Task.findByIdAndDelete
DeleteTask(u, id) ==
  /\ resp = NoResp
  /\ IF ~FindOwned(id, u)
       THEN /\ resp' = [NoResp EXCEPT !.op = "delete", !.kind = "NotFound",
                                      !.statusCode = 404, !.message = "Task not found",
                                      !.user = u, !.id = id, !.queries = 1]
            /\ UNCHANGED <<tasks, justCompleted>>
       ELSE /\ tasks' = [i \in DOMAIN tasks \ {id} |-> tasks[i]]
            /\ justCompleted' = justCompleted \ {id}
            /\ resp' = [NoResp EXCEPT !.op = "delete", !.kind = "ok",
                                      !.statusCode = 200, !.message = "Task deleted successfully",
                                      !.user = u, !.id = id, !.queries = 2]
  /\ UNCHANGED <<nextId, now>>
  /\ UNCHANGED <<inflight, local>>

----------------------------------------------------------------------------
(* routes/tasks.js: GET /api/tasks/:id *)

GetTask(u, id) ==
  /\ resp = NoResp
  /\ IF ~FindOwned(id, u)
       THEN resp' = [NoResp EXCEPT !.op = "get", !.kind = "NotFound",
                                   !.statusCode = 404, !.message = "Task not found",
                                   !.user = u, !.id = id, !.queries = 1]
       ELSE resp' = [NoResp EXCEPT !.op = "get", !.kind = "ok",
                                   !.statusCode = 200, !.message = "",
                                   !.user = u, !.id = id, !.queries = 1,
                                   !.items = <<id>>]
  /\ UNCHANGED <<tasks, nextId, now, justCompleted>>
  /\ UNCHANGED <<inflight, local>>

----------------------------------------------------------------------------
(* routes/tasks.js: GET /api/tasks/stats/overview; dates count days *)

\* taskSchema.statics.getUserTaskStats: $match the user, $group by status
GetUserTaskStats(u) ==
  LET Count(status) ==
        Cardinality({id \in DOMAIN tasks : tasks[id].user = u /\ tasks[id].status = status})
  IN [total |-> Cardinality({id \in DOMAIN tasks : tasks[id].user = u}),
      pending |-> Count("Pending"),
      inProgress |-> Count("In Progress"),
      completed |-> Count("Completed")]

\* deadline: { $lt: new Date() }, status: { $ne: 'Completed' }
OverdueTasks(u, t) ==
  Cardinality({id \in DOMAIN tasks : /\ tasks[id].user = u
                                     /\ tasks[id].deadline < t
                                     /\ tasks[id].status # "Completed"})

\* a count that leaves out the deadline exactly one week ahead
DueThisWeekExclusive(u, t) ==
  LET oneWeekFromNow == t + OneWeek
  IN Cardinality({id \in DOMAIN tasks : /\ tasks[id].user = u
                                        /\ tasks[id].deadline >= t
                                        /\ tasks[id].deadline < oneWeekFromNow
                                        /\ tasks[id].status # "Completed"})

\* deadline: { $gte: new Date(), $lte: oneWeekFromNow }, status: { $ne: 'Completed' }
DueThisWeek(u, t) ==
  LET oneWeekFromNow == t + OneWeek
  IN Cardinality({id \in DOMAIN tasks : /\ tasks[id].user = u
                                        /\ tasks[id].deadline >= t
                                        /\ tasks[id].deadline <= oneWeekFromNow
                                        /\ tasks[id].status # "Completed"})

\* createdAt: { $gte: thirtyDaysAgo }
TasksLast30Days(u, t) ==
  LET thirtyDaysAgo == t - ThirtyDays
  IN Cardinality({id \in DOMAIN tasks : /\ tasks[id].user = u
                                        /\ tasks[id].createdAt >= thirtyDaysAgo})

\* status: 'Completed', completedAt: { $gte: thirtyDaysAgo }; a null
\* completedAt matches no $gte
CompletedLast30Days(u, t) ==
  LET thirtyDaysAgo == t - ThirtyDays
  IN Cardinality({id \in DOMAIN tasks : /\ tasks[id].user = u
                                        /\ tasks[id].status = "Completed"
                                        /\ tasks[id].completedAt # NoDate
                                        /\ tasks[id].completedAt >= thirtyDaysAgo})

\* Math.round(x) for x = (a / b) * 100 >= 0: the nearest integer, halves up
MathRoundPercent(a, b) == (200 * a + b) \div (2 * b)

CompletionRate(completedLast30Days, tasksLast30Days) ==
  IF tasksLast30Days > 0
    THEN MathRoundPercent(completedLast30Days, tasksLast30Days)
    ELSE 0

GetStats(u) ==
  /\ resp = NoResp
  /\ resp' = [NoResp EXCEPT
                !.op = "stats", !.kind = "ok", !.statusCode = 200, !.user = u,
                !.queries = 5,
                !.stats = [total |-> GetUserTaskStats(u).total,
                           pending |-> GetUserTaskStats(u).pending,
                           inProgress |-> GetUserTaskStats(u).inProgress,
                           completed |-> GetUserTaskStats(u).completed,
                           overdue |-> OverdueTasks(u, now),
                           dueThisWeek |-> DueThisWeek(u, now),
                           completionRate |->
                             CompletionRate(CompletedLast30Days(u, now),
                                            TasksLast30Days(u, now))]]
  /\ UNCHANGED <<tasks, nextId, now, justCompleted>>
  /\ UNCHANGED <<inflight, local>>

----------------------------------------------------------------------------
(* routes/tasks.js: PATCH /api/tasks/bulk/status *)

BulkValidationOk(body) ==
  /\ Len(body.taskIds) >= 1
  /\ body.status \in Statuses

\* Task.find({ _id: { $in: taskIds }, user: u })
FindOwnedIn(taskIds, u) == {id \in DOMAIN tasks : id \in Range(taskIds) /\ tasks[id].user = u}

\* a verification that only asks for some owned task
BulkVerifiedSome(taskIds, u) == Cardinality(FindOwnedIn(taskIds, u)) >= 1

\* the verification of the handler: tasks.length !== taskIds.length
BulkVerified(taskIds, u) == Cardinality(FindOwnedIn(taskIds, u)) = Len(taskIds)

\* the update document of Task.updateMany (modifiedCount below counts the
\* matched documents: the timestamps option adds updatedAt to every $set)
BulkSet(doc, status, t) ==
  [doc EXCEPT !.status = status,
              !.completedAt = IF status = "Completed" THEN t ELSE NoDate]

BulkUpdateStatus(u, body) ==
  /\ resp = NoResp
  /\ IF ~BulkValidationOk(body)
       THEN /\ resp' = [NoResp EXCEPT !.op = "bulk", !.kind = "ValidationError",
                                      !.statusCode = 400, !.message = "Validation failed",
                                      !.user = u, !.req = body]
            /\ UNCHANGED <<tasks, justCompleted>>
       ELSE IF ~BulkVerified(body.taskIds, u)
         THEN /\ resp' = [NoResp EXCEPT !.op = "bulk", !.kind = "NotFound",
                                        !.statusCode = 404, !.message = "Some tasks not found or do not belong to user",
                                        !.user = u, !.req = body, !.queries = 1]
              /\ UNCHANGED <<tasks, justCompleted>>
         ELSE /\ tasks' = [id \in DOMAIN tasks |->
                             IF id \in FindOwnedIn(body.taskIds, u)
                               THEN BulkSet(tasks[id], body.status, now)
                               ELSE tasks[id]]
              /\ justCompleted' = justCompleted \ FindOwnedIn(body.taskIds, u)
              /\ resp' = [NoResp EXCEPT !.op = "bulk", !.kind = "ok",
                                        !.statusCode = 200, !.message = "",
                                        !.user = u, !.req = body, !.queries = 2,
                                        !.modifiedCount =
                                           Cardinality(FindOwnedIn(body.taskIds, u))]
  /\ UNCHANGED <<nextId, now>>
  /\ UNCHANGED <<inflight, local>>

----------------------------------------------------------------------------
(* routes/tasks.js: GET /api/tasks *)

\* A query-string number: absent, a decimal integer, or text that is no integer
QAbsent == <<"absent", 0>>
QText == <<"text", 0>>
QInt(n) == <<"int", n>>

\* express-validator isInt({ min, max }) on an optional parameter
IsIntIn(raw, lo, hi) == raw = QAbsent \/ (raw[1] = "int" /\ raw[2] >= lo /\ raw[2] <= hi)

\* express-validator isInt({ min }) on an optional parameter
IsIntMin(raw, lo) == raw = QAbsent \/ (raw[1] = "int" /\ raw[2] >= lo)

\* express-validator isBoolean() on an optional parameter
IsBoolean(raw) == raw \in {"undefined", "true", "false", "1", "0"}

\* a validation that forgets the upper bound of limit
ListValidationNoMax(q) ==
  /\ q.status \in Statuses \cup {"undefined"}
  /\ q.priority \in Priorities \cup {"undefined"}
  /\ IsBoolean(q.overdue)
  /\ IsIntMin(q.page, 1)
  /\ IsIntMin(q.limit, 1)

ListValidationOk(q) ==
  /\ q.status \in Statuses \cup {"undefined"}
  /\ q.priority \in Priorities \cup {"undefined"}
  /\ IsBoolean(q.overdue)
  /\ IsIntMin(q.page, 1)
  /\ IsIntIn(q.limit, 1, MaxLimit)

\* parseInt(raw, 10) || dflt: NaN and 0 are falsy
ParseIntOr(raw, dflt) == IF raw[1] = "int" /\ raw[2] # 0 THEN raw[2] ELSE dflt

\* the filters object of the handler
BuildFilters(q) ==
  [status |-> q.status, priority |-> q.priority, overdue |-> (q.overdue = "true")]

\* a query object whose overdue branch assigns query.deadline only
BuildQueryDeadlineOnly(u, filters, t) ==
  [user |-> u,
   status |-> IF filters.status # "undefined" THEN <<"eq", filters.status>>
              ELSE <<"any", "">>,
   priority |-> filters.priority,
   deadlineLt |-> IF filters.overdue THEN t ELSE NoDate]

\* the query object: the overdue branch assigns query.deadline and query.status
BuildQuery(u, filters, t) ==
  [user |-> u,
   status |-> IF filters.overdue THEN <<"ne", "Completed">>
              ELSE IF filters.status # "undefined" THEN <<"eq", filters.status>>
              ELSE <<"any", "">>,
   priority |-> filters.priority,
   deadlineLt |-> IF filters.overdue THEN t ELSE NoDate]

\* a match that does not look at the user of the query object
MatchesAnyUser(doc, query) ==
  /\ \/ query.status[1] = "any"
     \/ query.status[1] = "eq" /\ doc.status = query.status[2]
     \/ query.status[1] = "ne" /\ doc.status # query.status[2]
  /\ query.priority = "undefined" \/ doc.priority = query.priority
  /\ query.deadlineLt = NoDate \/ doc.deadline < query.deadlineLt

\* whether a document matches the query object
Matches(doc, query) ==
  /\ doc.user = query.user
  /\ \/ query.status[1] = "any"
     \/ query.status[1] = "eq" /\ doc.status = query.status[2]
     \/ query.status[1] = "ne" /\ doc.status # query.status[2]
  /\ query.priority = "undefined" \/ doc.priority = query.priority
  /\ query.deadlineLt = NoDate \/ doc.deadline < query.deadlineLt

\* a sort that breaks ties of the deadline by ascending creation time
SortLeqOldestFirst(a, b) ==
  \/ a.deadline < b.deadline
  \/ a.deadline = b.deadline /\ a.createdAt <= b.createdAt

\* sort({ deadline: 1, createdAt: -1 }): a before b, or a tie
SortLeq(a, b) ==
  \/ a.deadline < b.deadline
  \/ a.deadline = b.deadline /\ a.createdAt >= b.createdAt

\* the orders in which the store may return the matched documents
SortedSeqs(ids) ==
  {s \in [1..Cardinality(ids) -> ids] :
     /\ \A i, j \in DOMAIN s : i # j => s[i] # s[j]
     /\ \A i, j \in DOMAIN s : i < j => SortLeq(tasks[s[i]], tasks[s[j]])}

\* skip(startIndex).limit(limit) of a result
SkipLimit(result, startIndex, limit) ==
  SubSeq(result, startIndex + 1, Min(startIndex + limit, Len(result)))

\* a pagination object that offers a next page up to and including the last item
PaginationInclusive(page, limit, startIndex, total) ==
  [next |-> IF startIndex + limit <= total THEN <<page + 1, limit>> ELSE <<>>,
   prev |-> IF startIndex > 0 THEN <<page - 1, limit>> ELSE <<>>]

\* the pagination object of the response
Pagination(page, limit, startIndex, total) ==
  [next |-> IF startIndex + limit < total THEN <<page + 1, limit>> ELSE <<>>,
   prev |-> IF startIndex > 0 THEN <<page - 1, limit>> ELSE <<>>]

\* the response of the handler for the sorted result of the query
ListResponse(u, q, result) ==
  LET page == ParseIntOr(q.page, DefaultPage)
      limit == ParseIntOr(q.limit, DefaultLimit)
      startIndex == (page - 1) * limit
      total == Len(result)
      pagination == Pagination(page, limit, startIndex, total)
  IN [NoResp EXCEPT !.op = "list", !.kind = "ok", !.user = u, !.req = q,
                    !.statusCode = 200, !.message = "",
                    !.queries = 2, !.total = total,
                    !.items = SkipLimit(result, startIndex, limit),
                    !.next = pagination.next, !.prev = pagination.prev]

ListTasks(u, q) ==
  /\ resp = NoResp
  /\ IF ~ListValidationOk(q)
       THEN resp' = [NoResp EXCEPT !.op = "list", !.kind = "ValidationError",
                                   !.statusCode = 400, !.message = "Validation failed",
                                   !.user = u, !.req = q]
       ELSE LET query == BuildQuery(u, BuildFilters(q), now)
                matched == {id \in DOMAIN tasks : Matches(tasks[id], query)}
            IN \E result \in SortedSeqs(matched) : resp' = ListResponse(u, q, result)
  /\ UNCHANGED <<tasks, nextId, now, justCompleted>>
  /\ UNCHANGED <<inflight, local>>

\* the same handler over a store whose query returns the documents 1..total
ListOfTotal(u, q, total) ==
  /\ resp = NoResp
  /\ ListValidationOk(q)
  /\ resp' = ListResponse(u, q, [i \in 1..total |-> i])
  /\ UNCHANGED <<tasks, nextId, now, justCompleted>>
  /\ UNCHANGED <<inflight, local>>

----------------------------------------------------------------------------
(* routes/tasks.js: GET /api/tasks/admin/all *)

\* the users that authorize('admin') lets through
Admins == {"u1"}

\* if (req.query.status) query.status = req.query.status
AdminMatches(doc, q) == q.status = "undefined" \/ doc.status = q.status

\* sort({ createdAt: -1 }): a before b, or a tie
AdminSortLeq(a, b) == a.createdAt >= b.createdAt

\* the orders in which the store may return the matched documents
AdminSortedSeqs(ids) ==
  {s \in [1..Cardinality(ids) -> ids] :
     /\ \A i, j \in DOMAIN s : i # j => s[i] # s[j]
     /\ \A i, j \in DOMAIN s : i < j => AdminSortLeq(tasks[s[i]], tasks[s[j]])}

\* the handler reads the query string without asking for validationResult
AdminResponse(u, q, result) ==
  LET page == ParseIntOr(q.page, DefaultPage)
      limit == ParseIntOr(q.limit, DefaultLimit)
      startIndex == (page - 1) * limit
      total == Len(result)
      pagination == Pagination(page, limit, startIndex, total)
  IN [NoResp EXCEPT !.op = "adminList", !.kind = "ok", !.statusCode = 200,
                    !.user = u, !.req = q,
                    !.queries = 2, !.total = total,
                    !.items = SkipLimit(result, startIndex, limit),
                    !.next = pagination.next, !.prev = pagination.prev]

AdminGetAll(u, q) ==
  /\ resp = NoResp
  /\ u \in Admins
  /\ LET matched == {id \in DOMAIN tasks : AdminMatches(tasks[id], q)}
     IN \E result \in AdminSortedSeqs(matched) : resp' = AdminResponse(u, q, result)
  /\ UNCHANGED <<tasks, nextId, now, justCompleted>>
  /\ UNCHANGED <<inflight, local>>

----------------------------------------------------------------------------
(* The wall clock, and the end of a request *)

\* a clock under which a document leaves the collection when its deadline passes
TickExpiring ==
  /\ resp = NoResp
  /\ now < MaxTime
  /\ now' = now + 1
  /\ tasks' = [id \in {i \in DOMAIN tasks : tasks[i].deadline >= now + 1} |-> tasks[id]]
  /\ UNCHANGED <<nextId, resp, justCompleted>>
  /\ UNCHANGED <<inflight, local>>

\* time passes between two requests
Tick ==
  /\ resp = NoResp
  /\ now < MaxTime
  /\ now' = now + 1
  /\ UNCHANGED <<tasks, nextId, resp, justCompleted>>
  /\ UNCHANGED <<inflight, local>>

\* res.status(...).json(...): the response is sent
Respond ==
  /\ resp # NoResp
  /\ resp' = NoResp
  /\ UNCHANGED <<tasks, nextId, now, justCompleted>>
  /\ UNCHANGED <<inflight, local>>

----------------------------------------------------------------------------
(* routes/tasks.js: the handlers that await the store twice, as two steps. *)
(* Between the lookup and the write of one request the steps of the other  *)
(* requests may run.                                                       *)

\* a request between its lookup and its write
Pending(op, u, id, body) == [op |-> op, user |-> u, id |-> id, body |-> body]

\* PUT /api/tasks/:id up to the first await: validationResult, Task.findOne
\* and the deadline check
UpdateFind(slot, u, id, body) ==
  /\ resp = NoResp
  /\ inflight[slot].op = "none"
  /\ IF ~UpdateValidationOk(body)
       THEN /\ resp' = [NoResp EXCEPT !.op = "update", !.kind = "ValidationError",
                                      !.statusCode = 400, !.message = "Validation failed",
                                      !.user = u, !.req = body, !.id = id]
            /\ UNCHANGED inflight
       ELSE IF ~FindOwned(id, u)
         THEN /\ resp' = [NoResp EXCEPT !.op = "update", !.kind = "NotFound",
                                        !.statusCode = 404, !.message = "Task not found",
                                        !.user = u, !.req = body, !.id = id,
                                        !.queries = 1]
              /\ UNCHANGED inflight
         ELSE IF body.deadline # Undefined /\ body.deadline <= now
           THEN /\ resp' = [NoResp EXCEPT !.op = "update", !.kind = "ValidationError",
                                          !.statusCode = 400,
                                          !.message = "Deadline must be in the future",
                                          !.user = u, !.req = body, !.id = id,
                                          !.queries = 1]
                /\ UNCHANGED inflight
           ELSE /\ inflight' = [inflight EXCEPT ![slot] = Pending("update", u, id, body)]
                /\ UNCHANGED resp
  /\ UNCHANGED <<tasks, nextId, now, justCompleted, local>>

\* PUT /api/tasks/:id from Task.findByIdAndUpdate on: the write selects by
\* _id alone, answers null when no document has that _id, and the handler
\* sends whatever it answered with status 200
UpdateWrite(slot) ==
  /\ resp = NoResp
  /\ inflight[slot].op = "update"
  /\ LET r == inflight[slot] IN
       IF r.id \notin DOMAIN tasks
         THEN /\ resp' = [NoResp EXCEPT !.op = "update", !.kind = "ok",
                                        !.statusCode = 200, !.message = "",
                                        !.user = r.user, !.req = r.body, !.id = r.id,
                                        !.queries = 2, !.items = <<>>]
              /\ UNCHANGED <<tasks, justCompleted>>
         ELSE IF r.body.deadline # Undefined /\ ~DeadlineValidator(r.body.deadline, now)
           THEN /\ resp' = [NoResp EXCEPT !.op = "update", !.kind = "ValidationError",
                                          !.statusCode = 400,
                                          !.message = "Deadline must be in the future",
                                          !.user = r.user, !.req = r.body, !.id = r.id,
                                          !.queries = 2]
                /\ UNCHANGED <<tasks, justCompleted>>
           ELSE /\ tasks' = [tasks EXCEPT ![r.id] = FindByIdAndUpdate(@, r.body)]
                /\ justCompleted' = IF r.body.status = "Completed"
                                      THEN justCompleted \cup {r.id}
                                      ELSE justCompleted \ {r.id}
                /\ resp' = [NoResp EXCEPT !.op = "update", !.kind = "ok",
                                          !.statusCode = 200, !.message = "",
                                          !.user = r.user, !.req = r.body, !.id = r.id,
                                          !.queries = 2, !.items = <<r.id>>]
  /\ inflight' = [inflight EXCEPT ![slot] = Idle]
  /\ UNCHANGED <<nextId, now, local>>

\* DELETE /api/tasks/:id up to the first await: Task.findOne
DeleteFind(slot, u, id) ==
  /\ resp = NoResp
  /\ inflight[slot].op = "none"
  /\ IF ~FindOwned(id, u)
       THEN /\ resp' = [NoResp EXCEPT !.op = "delete", !.kind = "NotFound",
                                      !.statusCode = 404, !.message = "Task not found",
                                      !.user = u, !.id = id, !.queries = 1]
            /\ UNCHANGED inflight
       ELSE /\ inflight' = [inflight EXCEPT ![slot] = Pending("delete", u, id, <<>>)]
            /\ UNCHANGED resp
  /\ UNCHANGED <<tasks, nextId, now, justCompleted, local>>

\* DELETE /api/tasks/:id from Task.findByIdAndDelete on: its answer is not
\* looked at, the handler sends 200 whether or not a document was removed
DeleteWrite(slot) ==
  /\ resp = NoResp
  /\ inflight[slot].op = "delete"
  /\ LET r == inflight[slot] IN
       /\ tasks' = [i \in DOMAIN tasks \ {r.id} |-> tasks[i]]
       /\ justCompleted' = justCompleted \ {r.id}
       /\ resp' = [NoResp EXCEPT !.op = "delete", !.kind = "ok",
                                 !.statusCode = 200, !.message = "Task deleted successfully",
                                 !.user = r.user, !.id = r.id, !.queries = 2]
  /\ inflight' = [inflight EXCEPT ![slot] = Idle]
  /\ UNCHANGED <<nextId, now, local>>

\* PATCH /api/tasks/bulk/status up to the first await: validationResult,
\* Task.find and the comparison of the two lengths
BulkFind(slot, u, body) ==
  /\ resp = NoResp
  /\ inflight[slot].op = "none"
  /\ IF ~BulkValidationOk(body)
       THEN /\ resp' = [NoResp EXCEPT !.op = "bulk", !.kind = "ValidationError",
                                      !.statusCode = 400, !.message = "Validation failed",
                                      !.user = u, !.req = body]
            /\ UNCHANGED inflight
       ELSE IF ~BulkVerified(body.taskIds, u)
         THEN /\ resp' = [NoResp EXCEPT !.op = "bulk", !.kind = "NotFound",
                                        !.statusCode = 404,
                                        !.message = "Some tasks not found or do not belong to user",
                                        !.user = u, !.req = body, !.queries = 1]
              /\ UNCHANGED inflight
         ELSE /\ inflight' = [inflight EXCEPT ![slot] = Pending("bulk", u, 0, body)]
              /\ UNCHANGED resp
  /\ UNCHANGED <<tasks, nextId, now, justCompleted, local>>

\* PATCH /api/tasks/bulk/status from Task.updateMany on: the write selects
\* again by _id and user, and its modifiedCount is what the handler sends
BulkWrite(slot) ==
  /\ resp = NoResp
  /\ inflight[slot].op = "bulk"
  /\ LET r == inflight[slot] IN
       /\ tasks' = [id \in DOMAIN tasks |->
                      IF id \in FindOwnedIn(r.body.taskIds, r.user)
                        THEN BulkSet(tasks[id], r.body.status, now)
                        ELSE tasks[id]]
       /\ justCompleted' = justCompleted \ FindOwnedIn(r.body.taskIds, r.user)
       /\ resp' = [NoResp EXCEPT !.op = "bulk", !.kind = "ok",
                                 !.statusCode = 200, !.message = "",
                                 !.user = r.user, !.req = r.body, !.queries = 2,
                                 !.modifiedCount =
                                    Cardinality(FindOwnedIn(r.body.taskIds, r.user))]
  /\ inflight' = [inflight EXCEPT ![slot] = Idle]
  /\ UNCHANGED <<nextId, now, local>>

----------------------------------------------------------------------------
(* Requests *)

\* POST bodies with the documented fields: the well-formed ones, one with an
\* empty title and one with an over-long title
CreateBodies ==
  [title : {1}, description : {1}, deadline : {now, now + 1},
   status : {"undefined", "In Progress", "Completed"}, priority : {"undefined"},
   completedAt : {Undefined}, user : {"undefined"}]
  \cup [title : {0, MaxTitleLen + 1}, description : {1}, deadline : {now + 1},
        status : {"undefined"}, priority : {"undefined"},
        completedAt : {Undefined}, user : {"undefined"}]

\* PUT bodies: a status, a title, or a status outside the enumeration
UpdateBodies ==
  [title : {Undefined}, deadline : {Undefined},
   status : Statuses, priority : {"undefined"},
   completedAt : {Undefined}, user : {"undefined"}]
  \cup [title : {1}, deadline : {Undefined},
        status : {"undefined", "Bogus"}, priority : {"undefined"},
        completedAt : {Undefined}, user : {"undefined"}]

IdSeqs == {<<i>> : i \in 1..MaxTasks} \cup {<<i, j>> : i, j \in 1..MaxTasks}

BulkBodies ==
  [taskIds : IdSeqs, status : {"Pending", "Completed"}]
  \cup [taskIds : {<<>>}, status : {"Pending"}]
  \cup [taskIds : {<<1>>}, status : {"Bogus", "In Progress"}]

Init ==
  /\ tasks = <<>>
  /\ nextId = 1
  /\ now = 0
  /\ resp = NoResp
  /\ justCompleted = {}
  /\ inflight = [slot \in 1..MaxInflight |-> Idle]
  /\ local = <<>>

Create == \E u \in Users, body \in CreateBodies : CreateTask(u, body)
Update == \E u \in Users, id \in 1..MaxTasks, body \in UpdateBodies : UpdateTask(u, id, body)
Delete == \E u \in Users, id \in 1..MaxTasks : DeleteTask(u, id)
Bulk == \E u \in Users, body \in BulkBodies : BulkUpdateStatus(u, body)

Next == Tick \/ Create \/ Update \/ Delete \/ Bulk \/ Respond

Spec == Init /\ [][Next]_vars

----------------------------------------------------------------------------------------------------------------------------------------
(* Requests whose bodies also carry the schema paths completedAt and user *)

CreatePathBodies ==
  [title : {1}, description : {1}, deadline : {now, now + 1},
   status : {"undefined", "Pending", "Completed"}, priority : {"undefined"},
   completedAt : {Undefined, 0}, user : {"undefined", "u2"}]

UpdatePathBodies ==
  [title : {Undefined}, deadline : {Undefined},
   status : {"undefined", "Completed"}, priority : {"undefined"},
   completedAt : {Undefined, 0}, user : {"undefined", "u1"}]

CreateWithPaths == \E u \in Users, body \in CreatePathBodies : CreateTask(u, body)
UpdateWithPaths ==
  \E u \in Users, id \in 1..MaxTasks, body \in UpdatePathBodies : UpdateTask(u, id, body)

NextBody == Tick \/ CreateWithPaths \/ UpdateWithPaths \/ Respond

SpecBody == Init /\ [][NextBody]_vars

----------------
(* The list handler over stores built by POST requests *)

ListCreateBodies ==
  [title : {1}, description : {1}, deadline : {now + 1},
   status : {"undefined", "In Progress", "Completed"}, priority : {"undefined", "High"},
   completedAt : {Undefined}, user : {"undefined"}]

ListQueries ==
  [status : {"undefined", "Pending", "Completed"}, priority : {"undefined", "High"},
   overdue : {"undefined", "true"}, page : {QAbsent, QInt(1), QInt(2)},
   limit : {QAbsent, QInt(1)}]
  \cup [status : {"undefined"}, priority : {"undefined"},
        overdue : {"false", "1", "yes"}, page : {QAbsent}, limit : {QAbsent}]
  \cup [status : {"Bogus"}, priority : {"undefined"},
        overdue : {"undefined"}, page : {QAbsent}, limit : {QAbsent}]
  \cup [status : {"undefined"}, priority : {"Urgent"},
        overdue : {"true"}, page : {QAbsent}, limit : {QAbsent}]
  \cup [status : {"undefined"}, priority : {"undefined"},
        overdue : {"undefined"}, page : {QInt(0), QText}, limit : {QInt(1)}]
  \cup [status : {"Pending"}, priority : {"undefined"},
        overdue : {"undefined"}, page : {QInt(1)},
        limit : {QInt(0), QInt(MaxLimit), QInt(MaxLimit + 1), QText}]

CreateForList == \E u \in Users, body \in ListCreateBodies : CreateTask(u, body)
List == \E u \in Users, q \in ListQueries : ListTasks(u, q)

NextList == Tick \/ CreateForList \/ List \/ Respond

SpecList == Init /\ [][NextList]_vars

----------------------------------------------------------------------------
(* The list handler over query results of every size up to MaxTotal *)

PageQueries ==
  [status : {"undefined"}, priority : {"undefined"}, overdue : {"undefined"},
   page : {QAbsent, QInt(1), QInt(2), QInt(3), QInt(4)},
   limit : {QAbsent, QInt(1), QInt(2), QInt(DefaultLimit), QInt(MaxLimit)}]

ListAnyTotal == \E q \in PageQueries, total \in 0..MaxTotal : ListOfTotal("u1", q, total)

NextPage == ListAnyTotal \/ Respond

SpecPage == Init /\ [][NextPage]_vars

----------------------------------------------------------------------------
(* The order of the list over tasks that share a deadline *)

OrderCreateBodies ==
  [title : {1}, description : {1}, deadline : {now + 1, now + 2},
   status : {"undefined"}, priority : {"undefined"},
   completedAt : {Undefined}, user : {"undefined"}]

OrderQueries ==
  [status : {"undefined"}, priority : {"undefined"}, overdue : {"undefined", "true"},
   page : {QAbsent, QInt(1), QInt(2), QInt(3)}, limit : {QAbsent, QInt(1), QInt(2)}]

CreateForOrder == \E u \in Users, body \in OrderCreateBodies : CreateTask(u, body)
ListInOrder == \E u \in Users, q \in OrderQueries : ListTasks(u, q)

NextOrder == Tick \/ CreateForOrder \/ ListInOrder \/ Respond

SpecOrder == Init /\ [][NextOrder]_vars

----------------------------------------------------------------------------
(* The statistics over stores that span more than thirty days *)

\* the days, after day 0, on which requests arrive
StatsDays == {1, ThirtyDays, ThirtyDays + 1}

AdvanceDays ==
  /\ resp = NoResp
  /\ \E day \in StatsDays : day > now /\ now' = day
  /\ UNCHANGED <<tasks, nextId, resp, justCompleted>>
  /\ UNCHANGED <<inflight, local>>

StatsCreateBodies ==
  [title : {1}, description : {1}, deadline : {now + 1, now + OneWeek + 1},
   status : {"undefined", "Completed"}, priority : {"undefined"},
   completedAt : {Undefined}, user : {"undefined"}]

StatsBulkBodies ==
  [taskIds : {<<i>> : i \in 1..MaxTasks}, status : {"In Progress", "Completed"}]

CreateForStats == \E u \in Users, body \in StatsCreateBodies : CreateTask(u, body)
BulkForStats == \E u \in Users, body \in StatsBulkBodies : BulkUpdateStatus(u, body)
Stats == \E u \in Users : GetStats(u)

NextStats == AdvanceDays \/ CreateForStats \/ BulkForStats \/ Stats \/ Respond

SpecStats == Init /\ [][NextStats]_vars

----------------------------------------------------------------------------
(* Every handler of the router over tasks of two users *)

AccessCreateBodies ==
  [title : {1}, description : {1}, deadline : {now + 1},
   status : {"undefined"}, priority : {"undefined"},
   completedAt : {Undefined}, user : {"undefined"}]

\* PUT bodies: a status, a status together with a deadline, a title, a
\* status outside the enumeration, and a title together with a user
AccessUpdateBodies ==
  [title : {Undefined}, deadline : {Undefined, now, now + 1},
   status : {"Completed"}, priority : {"undefined"},
   completedAt : {Undefined}, user : {"undefined"}]
  \cup [title : {1}, deadline : {Undefined},
        status : {"undefined", "Bogus"}, priority : {"undefined"},
        completedAt : {Undefined}, user : {"undefined"}]
  \cup [title : {1}, deadline : {Undefined},
        status : {"undefined"}, priority : {"undefined"},
        completedAt : {Undefined}, user : {"u2"}]

AccessBulkBodies ==
  [taskIds : {<<i>> : i \in 1..MaxTasks}, status : {"In Progress"}]

AccessQueries ==
  [status : {"undefined"}, priority : {"undefined"}, overdue : {"undefined", "true"},
   page : {QAbsent}, limit : {QAbsent}]

CreateForAccess == \E u \in Users, body \in AccessCreateBodies : CreateTask(u, body)
CreateWithId ==
  \E u \in Users, body \in AccessCreateBodies, id \in 1..MaxTasks :
     CreateTaskWithId(u, body, id)
UpdateForAccess ==
  \E u \in Users, id \in 1..MaxTasks, body \in AccessUpdateBodies : UpdateTask(u, id, body)
BulkForAccess == \E u \in Users, body \in AccessBulkBodies : BulkUpdateStatus(u, body)
Get == \E u \in Users, id \in 1..MaxTasks : GetTask(u, id)
ListForAccess == \E u \in Users, q \in AccessQueries : ListTasks(u, q)

NextAccess ==
  \/ Tick \/ CreateForAccess \/ CreateWithId \/ UpdateForAccess \/ Delete \/ BulkForAccess
  \/ Get \/ ListForAccess \/ Stats \/ Respond

SpecAccess == Init /\ [][NextAccess]_vars

----------------------------------------------------------------------------
(* The list of the administrator *)

AdminCreateBodies ==
  [title : {1}, description : {1}, deadline : {now + 1, now + 2},
   status : {"undefined", "Completed"}, priority : {"undefined"},
   completedAt : {Undefined}, user : {"undefined"}]

\* the well-formed query strings, and query strings with a status outside
\* the enumeration, a page below 1 or a limit outside 1..100
AdminQueries ==
  [status : {"undefined", "Pending", "Completed"},
   page : {QAbsent, QInt(1), QInt(2)}, limit : {QAbsent, QInt(1), QInt(2)}]
  \cup [status : {"Bogus"}, page : {QAbsent}, limit : {QAbsent}]
  \cup [status : {"undefined"}, page : {QInt(0), QText}, limit : {QInt(1)}]
  \cup [status : {"undefined"}, page : {QInt(1)},
        limit : {QInt(0), QInt(MaxLimit + 1), QText}]

CreateForAdmin == \E u \in Users, body \in AdminCreateBodies : CreateTask(u, body)
AdminList == \E u \in Users, q \in AdminQueries : AdminGetAll(u, q)

NextAdmin == Tick \/ CreateForAdmin \/ AdminList \/ Respond

SpecAdmin == Init /\ [][NextAdmin]_vars

----------------------------------------------------------------------------
(* Requests that overlap: each update, delete and bulk request takes its   *)
(* two steps separately, with the steps of the others in between           *)

Slots == 1..MaxInflight

RaceCreateBodies ==
  [title : {1}, description : {1}, deadline : {now + 1},
   status : {"undefined"}, priority : {"undefined"},
   completedAt : {Undefined}, user : {"undefined"}]

\* PUT bodies: a status (one of them outside the enumeration), a deadline,
\* or a title together with the schema path user
RaceUpdateBodies ==
  [title : {Undefined}, deadline : {Undefined},
   status : {"In Progress", "Bogus"}, priority : {"undefined"},
   completedAt : {Undefined}, user : {"undefined"}]
  \cup [title : {Undefined}, deadline : {now, now + 1},
        status : {"undefined"}, priority : {"undefined"},
        completedAt : {Undefined}, user : {"undefined"}]
  \cup [title : {1}, deadline : {Undefined},
        status : {"undefined"}, priority : {"undefined"},
        completedAt : {Undefined}, user : {"u1"}]

RaceBulkBodies ==
  [taskIds : {<<1>>, <<1, 2>>}, status : {"Completed"}]
  \cup [taskIds : {<<>>}, status : {"Completed"}]

CreateForRace == \E u \in Users, body \in RaceCreateBodies : CreateTask(u, body)
UpdateLookup ==
  \E slot \in Slots, u \in Users, id \in 1..MaxTasks, body \in RaceUpdateBodies :
    UpdateFind(slot, u, id, body)
UpdateStore == \E slot \in Slots : UpdateWrite(slot)
DeleteLookup == \E slot \in Slots, u \in Users, id \in 1..MaxTasks : DeleteFind(slot, u, id)
DeleteStore == \E slot \in Slots : DeleteWrite(slot)
BulkLookup == \E slot \in Slots, u \in Users, body \in RaceBulkBodies : BulkFind(slot, u, body)
BulkStore == \E slot \in Slots : BulkWrite(slot)

NextRace ==
  \/ CreateForRace
  \/ UpdateLookup \/ UpdateStore
  \/ DeleteLookup \/ DeleteStore
  \/ BulkLookup \/ BulkStore
  \/ Respond

SpecRace == Init /\ [][NextRace]_vars

----------------------------------------------------------------------------
(* contexts/TaskContext.tsx: the TaskProvider of the Supabase client.      *)
(* `tasks` holds the rows of public.tasks, `local` the tasks state of the  *)
(* provider, newest first, and `inflight` the calls whose request the      *)
(* server has answered and whose code after the await has not yet run.     *)

\* useAuth().user of the provider
ClientUser == "u1"

\* a row as the provider stores it in its state
FormatTask(id) == [id |-> id, status |-> tasks[id].status]

\* the rows the policies USING (auth.uid() = user_id) let the user see
VisibleTo(u) == {id \in DOMAIN tasks : tasks[id].user = u}

\* select('*').order('created_at', { ascending: false }) over the rows with
\* the identifiers 1..n: rows are numbered in the order of their creation
RECURSIVE SelectNewestFirst(_, _)
SelectNewestFirst(u, n) ==
  IF n = 0 THEN <<>>
  ELSE (IF n \in VisibleTo(u) THEN <<FormatTask(n)>> ELSE <<>>)
         \o SelectNewestFirst(u, n - 1)

\* what an awaited call resolved to: { data, error }
Resolved(op, id, error, data) ==
  [op |-> op, id |-> id, error |-> error, data |-> data]

\* fetchTasks up to its await: the select runs, or the request fails
fetchTasks(slot, error) ==
  /\ inflight[slot].op = "none"
  /\ inflight' = [inflight EXCEPT ![slot] =
                    Resolved("fetch", 0, error,
                             IF error THEN <<>>
                             ELSE SelectNewestFirst(ClientUser, nextId - 1))]
  /\ UNCHANGED <<tasks, nextId, now, resp, justCompleted, local>>

\* fetchTasks after its await: setTasks(formattedTasks), or the catch block
fetchTasksThen(slot) ==
  /\ inflight[slot].op = "fetch"
  /\ local' = IF inflight[slot].error THEN local ELSE inflight[slot].data
  /\ inflight' = [inflight EXCEPT ![slot] = Idle]
  /\ UNCHANGED <<tasks, nextId, now, resp, justCompleted>>

\* addTask up to its await: insert([{ ..., user_id: user.id }]).select().single()
addTask(slot, status, error) ==
  /\ inflight[slot].op = "none"
  /\ nextId <= MaxTasks
  /\ IF error
       THEN /\ inflight' = [inflight EXCEPT ![slot] = Resolved("add", 0, TRUE, <<>>)]
            /\ UNCHANGED <<tasks, nextId>>
       ELSE /\ tasks' = tasks @@ (nextId :> [user |-> ClientUser, status |-> status])
            /\ nextId' = nextId + 1
            /\ inflight' = [inflight EXCEPT ![slot] =
                              Resolved("add", nextId, FALSE,
                                       [id |-> nextId, status |-> status])]
  /\ UNCHANGED <<now, resp, justCompleted, local>>

\* addTask after its await: setTasks(prev => [newTask, ...prev])
addTaskThen(slot) ==
  /\ inflight[slot].op = "add"
  /\ local' = IF inflight[slot].error THEN local
              ELSE <<inflight[slot].data>> \o local
  /\ inflight' = [inflight EXCEPT ![slot] = Idle]
  /\ UNCHANGED <<tasks, nextId, now, resp, justCompleted>>

\* updateTask up to its await: update(updateData).eq('id', id).select()
\* .single(), which answers an error when no row comes back
updateTask(slot, id, status, error) ==
  /\ inflight[slot].op = "none"
  /\ IF error \/ id \notin VisibleTo(ClientUser)
       THEN /\ inflight' = [inflight EXCEPT ![slot] = Resolved("update", id, TRUE, <<>>)]
            /\ UNCHANGED tasks
       ELSE /\ tasks' = [tasks EXCEPT ![id].status = status]
            /\ inflight' = [inflight EXCEPT ![slot] =
                              Resolved("update", id, FALSE,
                                       [id |-> id, status |-> status])]
  /\ UNCHANGED <<nextId, now, resp, justCompleted, local>>

\* updateTask after its await:
\* setTasks(prev => prev.map(task => task.id === id ? updatedTask : task))
updateTaskThen(slot) ==
  /\ inflight[slot].op = "update"
  /\ local' = IF inflight[slot].error THEN local
              ELSE [i \in DOMAIN local |->
                      IF local[i].id = inflight[slot].id
                        THEN inflight[slot].data ELSE local[i]]
  /\ inflight' = [inflight EXCEPT ![slot] = Idle]
  /\ UNCHANGED <<tasks, nextId, now, resp, justCompleted>>

\* deleteTask up to its await: delete().eq('id', id), no error when no row
\* matches
deleteTask(slot, id, error) ==
  /\ inflight[slot].op = "none"
  /\ IF error
       THEN /\ inflight' = [inflight EXCEPT ![slot] = Resolved("delete", id, TRUE, <<>>)]
            /\ UNCHANGED tasks
       ELSE /\ tasks' = [i \in DOMAIN tasks \ ({id} \cap VisibleTo(ClientUser)) |-> tasks[i]]
            /\ inflight' = [inflight EXCEPT ![slot] = Resolved("delete", id, FALSE, <<>>)]
  /\ UNCHANGED <<nextId, now, resp, justCompleted, local>>

\* deleteTask after its await: setTasks(prev => prev.filter(task => task.id !== id))
deleteTaskThen(slot) ==
  /\ inflight[slot].op = "delete"
  /\ local' = IF inflight[slot].error THEN local
              ELSE SelectSeq(local, LAMBDA task : task.id # inflight[slot].id)
  /\ inflight' = [inflight EXCEPT ![slot] = Idle]
  /\ UNCHANGED <<tasks, nextId, now, resp, justCompleted>>

ClientStatuses == {"Pending", "Completed"}

Fetch == \E slot \in Slots, error \in BOOLEAN : fetchTasks(slot, error)
FetchThen == \E slot \in Slots : fetchTasksThen(slot)
Add == \E slot \in Slots, status \in {"Pending"}, error \in BOOLEAN : addTask(slot, status, error)
AddThen == \E slot \in Slots : addTaskThen(slot)
ClientUpdate ==
  \E slot \in Slots, id \in 1..MaxTasks, status \in ClientStatuses, error \in BOOLEAN :
    updateTask(slot, id, status, error)
ClientUpdateThen == \E slot \in Slots : updateTaskThen(slot)
ClientDelete ==
  \E slot \in Slots, id \in 1..MaxTasks, error \in BOOLEAN : deleteTask(slot, id, error)
ClientDeleteThen == \E slot \in Slots : deleteTaskThen(slot)

NextClient ==
  \/ Fetch \/ FetchThen
  \/ Add \/ AddThen
  \/ ClientUpdate \/ ClientUpdateThen
  \/ ClientDelete \/ ClientDeleteThen

SpecClient == Init /\ [][NextClient]_vars

----------------------------------------------------------------------------
(* Claims on the task lifecycle *)

\* C1: in every reachable state every stored task has completedAt non-null
\* if and only if its status is Completed.
C1_CompletedAtIffCompleted ==
  \A id \in DOMAIN tasks :
     (tasks[id].completedAt # NoDate) <=> (tasks[id].status = "Completed")

\* C2: a successful PUT that changes status from Pending or In Progress to
\* Completed on a task whose completedAt is null leaves the stored task
\* Completed with completedAt equal to the time of the request.
C2_UpdateStampsCompletedAt ==
  [][\A id \in DOMAIN tasks :
        (/\ resp'.op = "update" /\ resp'.kind = "ok" /\ resp'.id = id
         /\ tasks[id].status \in {"Pending", "In Progress"}
         /\ tasks[id].completedAt = NoDate
         /\ resp'.req.status = "Completed")
        => (/\ id \in DOMAIN tasks'
            /\ tasks'[id].status = "Completed"
            /\ tasks'[id].completedAt = now)]_vars

\* C3: a successful PUT setting status to Pending that follows a successful
\* PUT setting status to Completed on the same task leaves completedAt null,
\* whatever the task was before.
C3_CompletedThenPendingClears ==
  [][\A id \in justCompleted :
        (/\ resp'.op = "update" /\ resp'.kind = "ok" /\ resp'.id = id
         /\ resp'.req.status = "Pending")
        => tasks'[id].completedAt = NoDate]_vars

\* C4: a POST with valid title and description fails with a validation error
\* and adds no task when its deadline is not later than the request time;
\* otherwise it succeeds and, when it carries no status, the stored task is
\* Pending with completedAt null.
C4_CreateDeadlineRule ==
  [][(/\ resp'.op = "create"
      /\ resp'.req.title >= 1 /\ resp'.req.title <= MaxTitleLen
      /\ resp'.req.description >= 1 /\ resp'.req.description <= MaxDescriptionLen)
     => IF resp'.req.deadline <= now
          THEN resp'.kind = "ValidationError" /\ tasks' = tasks
          ELSE /\ resp'.kind = "ok"
               /\ resp'.id \in DOMAIN tasks' \ DOMAIN tasks
               /\ resp'.req.status = "undefined"
                    => /\ tasks'[resp'.id].status = "Pending"
                       /\ tasks'[resp'.id].completedAt = NoDate]_vars

\* C5: a well-formed bulk status request in which some identifier is not an
\* existing task of the caller is answered NotFound and changes no task.
C5_BulkAllOrNothing ==
  [][(/\ resp'.op = "bulk"
      /\ resp'.req.status \in Statuses
      /\ \E i \in DOMAIN resp'.req.taskIds :
            \/ resp'.req.taskIds[i] \notin DOMAIN tasks
            \/ tasks[resp'.req.taskIds[i]].user # resp'.user)
     => (resp'.kind = "NotFound" /\ tasks' = tasks)]_vars

\* C5 witness: a rejected bulk request naming a task of the caller together
\* with a task of another user.
C5_Witness ==
  /\ resp.op = "bulk" /\ resp.kind = "NotFound"
  /\ \E i, j \in DOMAIN resp.req.taskIds :
        /\ resp.req.taskIds[i] \in DOMAIN tasks
        /\ tasks[resp.req.taskIds[i]].user = resp.user
        /\ resp.req.taskIds[j] \in DOMAIN tasks
        /\ tasks[resp.req.taskIds[j]].user # resp.user

\* C6: after a successful bulk status request every affected task has the
\* target status, and its completedAt is the one the single-update rule
\* gives: kept when the task already had one and the target is Completed,
\* the request time when it had none, null when the target is not Completed.
C6_BulkMatchesSingleUpdate ==
  [][(resp'.op = "bulk" /\ resp'.kind = "ok")
     => \A id \in DOMAIN tasks :
           (id \in Range(resp'.req.taskIds) /\ tasks[id].user = resp'.user)
           => /\ tasks'[id].status = resp'.req.status
              /\ tasks'[id].completedAt =
                   IF resp'.req.status = "Completed"
                     THEN IF tasks[id].completedAt # NoDate
                            THEN tasks[id].completedAt
                            ELSE now
                     ELSE NoDate]_vars

----------------------------------------------------------------------------
(* Claims on the list handler *)

\* C7: a list response to a request with overdue=true holds no Completed
\* task and no task whose deadline is not earlier than the request time,
\* whatever the other filters are.
C7_OverdueExcludesCompleted ==
  (resp.op = "list" /\ resp.kind = "ok" /\ resp.req.overdue = "true")
  => \A i \in DOMAIN resp.items :
        /\ tasks[resp.items[i]].status # "Completed"
        /\ tasks[resp.items[i]].deadline < now

\* C7 witness: an overdue list that returns a task while the caller also
\* owns a Completed task whose deadline has passed.
C7_Witness ==
  /\ resp.op = "list" /\ resp.kind = "ok" /\ resp.req.overdue = "true"
  /\ Len(resp.items) >= 1
  /\ \E id \in DOMAIN tasks :
        /\ tasks[id].user = resp.user
        /\ tasks[id].status = "Completed"
        /\ tasks[id].deadline < now

\* C8: a list response to a request with overdue=true and a status filter S
\* holds only tasks with status S, a deadline earlier than the request time
\* and a status other than Completed, and its total counts exactly those.
C8_OverdueAndStatusAnded ==
  (/\ resp.op = "list" /\ resp.kind = "ok"
   /\ resp.req.overdue = "true" /\ resp.req.status # "undefined")
  => /\ \A i \in DOMAIN resp.items :
           /\ tasks[resp.items[i]].status = resp.req.status
           /\ tasks[resp.items[i]].status # "Completed"
           /\ tasks[resp.items[i]].deadline < now
     /\ resp.total =
          Cardinality({id \in DOMAIN tasks :
                         /\ tasks[id].user = resp.user
                         /\ tasks[id].status = resp.req.status
                         /\ tasks[id].status # "Completed"
                         /\ tasks[id].deadline < now
                         /\ resp.req.priority \in {"undefined", tasks[id].priority}})

\* C9: for page >= 1 and limit in 1..100 the page holds the documents from
\* offset (page-1)*limit on, next is {page+1, limit} exactly when
\* offset+limit < total and prev is {page-1, limit} exactly when offset > 0;
\* with total 57 and limit 25, page 1 has 25 items, next {2,25} and no prev,
\* and page 3 has 7 items, no next and prev {2,25}.
C9_Pagination ==
  (/\ resp.op = "list" /\ resp.kind = "ok"
   /\ resp.req.page[1] = "int" /\ resp.req.limit[1] = "int")
  => LET page == resp.req.page[2]
         limit == resp.req.limit[2]
         offset == (page - 1) * limit
     IN /\ Len(resp.items) =
             IF offset >= resp.total THEN 0
             ELSE IF offset + limit <= resp.total THEN limit
             ELSE resp.total - offset
        /\ \A i \in DOMAIN resp.items : resp.items[i] = offset + i
        /\ (offset + limit < resp.total) <=> (resp.next = <<page + 1, limit>>)
        /\ (offset + limit >= resp.total) <=> (resp.next = <<>>)
        /\ (offset > 0) <=> (resp.prev = <<page - 1, limit>>)
        /\ (offset = 0) <=> (resp.prev = <<>>)
        /\ (resp.total = 57 /\ limit = 25 /\ page = 1)
             => (Len(resp.items) = 25 /\ resp.next = <<2, 25>> /\ resp.prev = <<>>)
        /\ (resp.total = 57 /\ limit = 25 /\ page = 3)
             => (Len(resp.items) = 7 /\ resp.next = <<>> /\ resp.prev = <<2, 25>>)

\* C9 witness: the third page of 57 documents with limit 25.
C9_Witness ==
  /\ resp.op = "list" /\ resp.kind = "ok" /\ resp.total = 57
  /\ resp.req.page = QInt(3) /\ resp.req.limit = QInt(25)
  /\ Len(resp.items) = 7

\* C10: a list request with a status or priority outside the enumeration, an
\* overdue that is no boolean, a page below 1 or a limit outside 1..100 is
\* answered with a validation error and no store query is issued.
C10_ListRejectsInvalid ==
  (/\ resp.op = "list"
   /\ \/ resp.req.status \notin {"undefined", "Pending", "In Progress", "Completed"}
      \/ resp.req.priority \notin {"undefined", "Low", "Medium", "High"}
      \/ resp.req.overdue \notin {"undefined", "true", "false", "1", "0"}
      \/ resp.req.page[1] = "int" /\ resp.req.page[2] < 1
      \/ resp.req.limit[1] = "int" /\ (resp.req.limit[2] < 1 \/ resp.req.limit[2] > 100))
  => (resp.kind = "ValidationError" /\ resp.queries = 0)

\* C10 witness: a rejected request with limit 101 by a user who owns a task.
C10_Witness ==
  /\ resp.op = "list" /\ resp.kind = "ValidationError"
  /\ resp.req.limit = QInt(101)
  /\ \E id \in DOMAIN tasks : tasks[id].user = resp.user

\* C11: the items of a list page are in ascending order of deadline, tasks
\* with the same deadline in descending order of creation time, and every
\* item of the page is in that order before every item of every later page
\* of the same request answered over the same store.
C11_ListOrdered ==
  (resp.op = "list" /\ resp.kind = "ok")
  => LET page == IF resp.req.page[1] = "int" THEN resp.req.page[2] ELSE 1
         matched == {id \in DOMAIN tasks :
                       Matches(tasks[id], BuildQuery(resp.user, BuildFilters(resp.req), now))}
         Before(a, b) == \/ tasks[a].deadline < tasks[b].deadline
                         \/ /\ tasks[a].deadline = tasks[b].deadline
                            /\ tasks[a].createdAt >= tasks[b].createdAt
     IN /\ \A i, j \in DOMAIN resp.items :
              i < j => Before(resp.items[i], resp.items[j])
        /\ \A later \in (page + 1)..(page + MaxTasks) :
              \A result \in SortedSeqs(matched) :
                 LET laterPage ==
                       ListResponse(resp.user, [resp.req EXCEPT !.page = QInt(later)], result)
                 IN \A i \in DOMAIN resp.items, j \in DOMAIN laterPage.items :
                       Before(resp.items[i], laterPage.items[j])

\* C11 witness: the first page, of one item, of a user who owns two tasks
\* with the same deadline created at different times.
C11_Witness ==
  /\ resp.op = "list" /\ resp.kind = "ok"
  /\ resp.req.page = QInt(1) /\ resp.req.limit = QInt(1)
  /\ Len(resp.items) = 1
  /\ \E id \in DOMAIN tasks :
        /\ tasks[id].user = resp.user
        /\ tasks[id].deadline = tasks[resp.items[1]].deadline
        /\ tasks[id].createdAt < tasks[resp.items[1]].createdAt

----------------------------------------------------------------------------
(* Claims on the statistics *)

\* C12: the completionRate of a statistics response is round(100 * C / N),
\* where N counts the caller's tasks created in the last 30 days and C counts
\* those of them that are Completed with completedAt in the last 30 days; it
\* is 0 when N is 0, and 40 for N = 10 and C = 4.
C12_CompletionRate ==
  /\ CompletionRate(4, 10) = 40
  /\ (resp.op = "stats" /\ resp.kind = "ok")
     => LET created == {id \in DOMAIN tasks :
                          /\ tasks[id].user = resp.user
                          /\ tasks[id].createdAt >= now - 30}
            done == {id \in created :
                       /\ tasks[id].status = "Completed"
                       /\ tasks[id].completedAt # NoDate
                       /\ tasks[id].completedAt >= now - 30}
            N == Cardinality(created)
            C == Cardinality(done)
        IN resp.stats.completionRate =
             IF N = 0 THEN 0 ELSE (200 * C + N) \div (2 * N)

\* C13: the counts of a statistics response are the direct counts over the
\* caller's tasks at the time of the request: total is the number of the
\* caller's tasks and the sum of pending, inProgress and completed; overdue
\* counts the tasks not Completed with deadline < now; dueThisWeek counts the
\* tasks not Completed with now <= deadline <= now + 7 days; no task of
\* another user is counted.
C13_StatsCounts ==
  (resp.op = "stats" /\ resp.kind = "ok")
  => LET mine == {id \in DOMAIN tasks : tasks[id].user = resp.user}
         Of(status) == Cardinality({id \in mine : tasks[id].status = status})
     IN /\ resp.stats.total = Cardinality(mine)
        /\ resp.stats.total =
             resp.stats.pending + resp.stats.inProgress + resp.stats.completed
        /\ resp.stats.pending = Of("Pending")
        /\ resp.stats.inProgress = Of("In Progress")
        /\ resp.stats.completed = Of("Completed")
        /\ resp.stats.overdue =
             Cardinality({id \in mine : /\ tasks[id].deadline < now
                                        /\ tasks[id].status # "Completed"})
        /\ resp.stats.dueThisWeek =
             Cardinality({id \in mine : /\ now <= tasks[id].deadline
                                        /\ tasks[id].deadline <= now + 7
                                        /\ tasks[id].status # "Completed"})

\* C13 witness: statistics of a user who owns a task due exactly seven days
\* after the request while another user owns a task too.
C13_Witness ==
  /\ resp.op = "stats" /\ resp.kind = "ok"
  /\ resp.stats.dueThisWeek >= 1
  /\ \E id \in DOMAIN tasks :
        /\ tasks[id].user = resp.user
        /\ tasks[id].deadline = now + 7
        /\ tasks[id].status # "Completed"
  /\ \E id \in DOMAIN tasks : tasks[id].user # resp.user

----------------------------------------------------------------------------
(* Claims on deletion and on ownership *)

\* C14: a successful DELETE removes the task, and a task once deleted never
\* is in the store again: every later GET, DELETE and well-formed PUT for its
\* identifier is answered NotFound, no later list page holds it and no later
\* statistic counts it.
C14_DeletedStaysDeleted ==
  [][/\ (resp'.op = "delete" /\ resp'.kind = "ok") => resp'.id \notin DOMAIN tasks'
     /\ \A id \in 1..(nextId - 1) :
           id \notin DOMAIN tasks
           => /\ id \notin DOMAIN tasks'
              /\ (resp'.op \in {"get", "delete"} /\ resp'.id = id)
                   => resp'.kind = "NotFound"
              /\ (/\ resp'.op = "update" /\ resp'.id = id
                  /\ resp'.req.status \in {"undefined", "Pending", "In Progress", "Completed"}
                  /\ resp'.req.priority \in {"undefined", "Low", "Medium", "High"}
                  /\ resp'.req.title = Undefined
                       \/ (resp'.req.title >= 1 /\ resp'.req.title <= 200))
                   => resp'.kind = "NotFound"
              /\ (resp'.op = "list" /\ resp'.kind = "ok")
                   => \A i \in DOMAIN resp'.items : resp'.items[i] # id
              /\ (resp'.op = "stats" /\ resp'.kind = "ok")
                   => resp'.stats.total =
                        Cardinality({j \in DOMAIN tasks' \ {id} :
                                       tasks'[j].user = resp'.user})]_vars

\* C15: a GET, PUT or DELETE for an identifier that is no task of the caller
\* gets the same response whether the identifier is a task of another user
\* or no task at all: kind NotFound, status 404 and message 'Task not found'
\* (a malformed PUT is answered with the validation error in both cases), and
\* the store is left as it was.
C15_NotOwnedLikeNotExisting ==
  [][(/\ resp'.op \in {"get", "update", "delete"}
      /\ ~(resp'.id \in DOMAIN tasks /\ tasks[resp'.id].user = resp'.user))
     => LET malformed ==
              /\ resp'.op = "update"
              /\ \/ resp'.req.status \notin {"undefined", "Pending", "In Progress", "Completed"}
                 \/ resp'.req.priority \notin {"undefined", "Low", "Medium", "High"}
                 \/ /\ resp'.req.title # Undefined
                    /\ (resp'.req.title < 1 \/ resp'.req.title > 200)
        IN /\ <<resp'.kind, resp'.statusCode, resp'.message>> =
                IF malformed THEN <<"ValidationError", 400, "Validation failed">>
                ELSE <<"NotFound", 404, "Task not found">>
           /\ resp'.items = <<>>
           /\ tasks' = tasks]_vars

\* C15 witness: a PUT with a deadline that has passed, for a task of another
\* user, answered NotFound.
C15_Witness ==
  /\ resp.op = "update" /\ resp.kind = "NotFound"
  /\ resp.req.deadline # Undefined /\ resp.req.deadline <= now
  /\ resp.id \in DOMAIN tasks /\ tasks[resp.id].user # resp.user

\* C16: after any sequence of requests by any users, a list response holds
\* only tasks of the caller, a GET returns only a task of the caller, and
\* the statistics count the tasks of the caller and no other task.
C16_OwnerScoped ==
  LET mine == {id \in DOMAIN tasks : tasks[id].user = resp.user}
  IN /\ (resp.op = "list" /\ resp.kind = "ok")
          => /\ \A i \in DOMAIN resp.items : resp.items[i] \in mine
             /\ resp.total <= Cardinality(mine)
     /\ (resp.op = "get" /\ resp.kind = "ok")
          => (resp.items = <<resp.id>> /\ resp.id \in mine)
     /\ (resp.op = "stats" /\ resp.kind = "ok")
          => /\ resp.stats.total = Cardinality(mine)
             /\ resp.stats.pending + resp.stats.inProgress + resp.stats.completed
                  = Cardinality(mine)
             /\ resp.stats.overdue =
                  Cardinality({id \in mine : /\ tasks[id].deadline < now
                                             /\ tasks[id].status # "Completed"})
             /\ resp.stats.dueThisWeek =
                  Cardinality({id \in mine : /\ tasks[id].deadline >= now
                                             /\ tasks[id].deadline <= now + 7
                                             /\ tasks[id].status # "Completed"})

\* C16 witness: a list response that holds a task while another user owns
\* a task whose deadline has passed too.
C16_Witness ==
  /\ resp.op = "list" /\ resp.kind = "ok" /\ resp.req.overdue = "true"
  /\ Len(resp.items) >= 1
  /\ \E id \in DOMAIN tasks :
        /\ tasks[id].user # resp.user
        /\ tasks[id].deadline < now
        /\ tasks[id].status # "Completed"

\* C17: the owner of a task never changes after its creation: no PUT,
\* whatever its body carries, and no bulk status request changes the user of
\* a stored task.
C17_OwnerImmutable ==
  [][\A id \in DOMAIN tasks :
        id \in DOMAIN tasks' => tasks'[id].user = tasks[id].user]_vars

----------------------------------------------------------------------------
(* Claims on the deadline rule in updates *)

\* C18: a PUT for a task of the caller whose body carries a deadline that is
\* not later than the request time is answered with a validation error, and
\* no field of any stored task changes, even when the body also carries a
\* valid change of another field.
C18_UpdatePastDeadlineRejected ==
  [][(/\ resp'.op = "update"
      /\ resp'.req.deadline # Undefined /\ resp'.req.deadline <= now)
     => /\ tasks' = tasks
        /\ (resp'.id \in DOMAIN tasks /\ tasks[resp'.id].user = resp'.user)
             => (resp'.kind = "ValidationError" /\ resp'.statusCode = 400)]_vars

\* C18 witness: a rejected PUT that carries the request time as deadline
\* together with status Completed, for a Pending task of the caller.
C18_Witness ==
  /\ resp.op = "update" /\ resp.kind = "ValidationError"
  /\ resp.req.deadline = now /\ resp.req.status = "Completed"
  /\ resp.id \in DOMAIN tasks
  /\ tasks[resp.id].user = resp.user
  /\ tasks[resp.id].status = "Pending"

\* C19: a task whose deadline has passed stays in the store until it is
\* deleted, and a well-formed PUT without a deadline and a well-formed bulk
\* status request naming distinct tasks of the caller succeed on it.
C19_OverdueStaysAndUpdates ==
  [][/\ \A id \in DOMAIN tasks :
           (/\ tasks[id].deadline < now'
            /\ ~(resp'.op = "delete" /\ resp'.kind = "ok" /\ resp'.id = id))
           => id \in DOMAIN tasks'
     /\ (/\ resp'.op = "update"
         /\ resp'.req.deadline = Undefined
         /\ resp'.req.status \in {"undefined", "Pending", "In Progress", "Completed"}
         /\ resp'.req.priority \in {"undefined", "Low", "Medium", "High"}
         /\ resp'.req.title = Undefined \/ (resp'.req.title >= 1 /\ resp'.req.title <= 200)
         /\ resp'.id \in DOMAIN tasks
         /\ tasks[resp'.id].user = resp'.user
         /\ tasks[resp'.id].deadline < now)
        => (resp'.kind = "ok" /\ resp'.id \in DOMAIN tasks')
     /\ (/\ resp'.op = "bulk"
         /\ resp'.req.status \in {"Pending", "In Progress", "Completed"}
         /\ Len(resp'.req.taskIds) >= 1
         /\ \A i, j \in DOMAIN resp'.req.taskIds :
               i # j => resp'.req.taskIds[i] # resp'.req.taskIds[j]
         /\ \A i \in DOMAIN resp'.req.taskIds :
               /\ resp'.req.taskIds[i] \in DOMAIN tasks
               /\ tasks[resp'.req.taskIds[i]].user = resp'.user
               /\ tasks[resp'.req.taskIds[i]].deadline < now)
        => /\ resp'.kind = "ok"
           /\ \A i \in DOMAIN resp'.req.taskIds :
                 tasks'[resp'.req.taskIds[i]].status = resp'.req.status]_vars

\* C19 witness: a successful PUT of a title for a task whose deadline has
\* passed.
C19_Witness ==
  /\ resp.op = "update" /\ resp.kind = "ok"
  /\ resp.req.title # Undefined /\ resp.req.deadline = Undefined
  /\ resp.id \in DOMAIN tasks
  /\ tasks[resp.id].deadline < now

----------------------------------------------------------------------------
(* Claims on the list of the administrator *)

\* C20: in a store in which every task is owned by the administrator who
\* calls, the administrative list for a valid {status, page, limit} has the
\* items, in the same order, the total and the next and prev of a response
\* of the owner list to the same {status, page, limit}.
C20_AdminListLikeOwnerList ==
  (/\ resp.op = "adminList" /\ resp.kind = "ok"
   /\ resp.req.status \in {"undefined", "Pending", "In Progress", "Completed"}
   /\ resp.req.page = QAbsent \/ (resp.req.page[1] = "int" /\ resp.req.page[2] >= 1)
   /\ resp.req.limit = QAbsent
        \/ (resp.req.limit[1] = "int" /\ resp.req.limit[2] >= 1 /\ resp.req.limit[2] <= 100)
   /\ \A id \in DOMAIN tasks : tasks[id].user = resp.user)
  => LET q == [status |-> resp.req.status, priority |-> "undefined",
               overdue |-> "undefined", page |-> resp.req.page,
               limit |-> resp.req.limit]
         matched == {id \in DOMAIN tasks :
                       Matches(tasks[id], BuildQuery(resp.user, BuildFilters(q), now))}
     IN \E result \in SortedSeqs(matched) :
           LET owner == ListResponse(resp.user, q, result)
           IN /\ resp.items = owner.items
              /\ resp.total = owner.total
              /\ resp.next = owner.next
              /\ resp.prev = owner.prev

\* C21: an administrative list request with a status outside the
\* enumeration, a page below 1 or a limit outside 1..100 is answered with a
\* validation error before any store query is issued, and no successful
\* administrative list response holds more than 100 items.
C21_AdminListRejectsInvalid ==
  resp.op = "adminList"
  => /\ (\/ resp.req.status \notin {"undefined", "Pending", "In Progress", "Completed"}
         \/ resp.req.page[1] = "text"
         \/ resp.req.page[1] = "int" /\ resp.req.page[2] < 1
         \/ resp.req.limit[1] = "text"
         \/ resp.req.limit[1] = "int"
              /\ (resp.req.limit[2] < 1 \/ resp.req.limit[2] > 100))
        => (resp.kind = "ValidationError" /\ resp.queries = 0)
     /\ resp.kind = "ok" => Len(resp.items) <= 100

----------------------------------------------------------------------------
\* C22: a bulk status update behaves as if its verification and its write
\* were one indivisible step.  An indivisible execution that succeeds has
\* found every supplied id among the caller's tasks and has written every one
\* of them, so a success reports as many modified tasks as ids were supplied
\* and leaves each of them in existence, owned by the caller, with the
\* requested status.
C22_BulkAtomic ==
  (resp.op = "bulk" /\ resp.kind = "ok") =>
     /\ resp.modifiedCount = Len(resp.req.taskIds)
     /\ \A id \in Range(resp.req.taskIds) :
          /\ id \in DOMAIN tasks
          /\ tasks[id].user = resp.user
          /\ tasks[id].status = resp.req.status

----------------------------------------------------------------------------
\* C23: whatever the interleaving with a delete of the same task, an update
\* is answered with the updated task, NotFound or ValidationError, never
\* with a success that carries no task; and a delete is answered Ok only by
\* the step that removed the task.
C23_UpdateDeleteRace ==
  [][ /\ (resp = NoResp /\ resp'.op = "update") =>
           /\ resp'.kind \in {"ok", "NotFound", "ValidationError"}
           /\ resp'.kind = "ok" =>
                /\ resp'.items = <<resp'.id>>
                /\ resp'.id \in DOMAIN tasks'
      /\ (resp = NoResp /\ resp'.op = "delete" /\ resp'.kind = "ok") =>
           /\ resp'.id \in DOMAIN tasks
           /\ resp'.id \notin DOMAIN tasks'
    ]_vars

----------------------------------------------------------------------------
\* C24: no update, delete or bulk status request of a user who is not an
\* admin changes or removes a task that another user owns at the moment of
\* the write.
C24_WritesOwnTasksOnly ==
  [][ (resp = NoResp /\ resp'.op \in {"update", "delete", "bulk"}
         /\ resp'.user \notin Admins) =>
        \A id \in DOMAIN tasks :
          tasks[id].user # resp'.user =>
            (id \in DOMAIN tasks' /\ tasks'[id] = tasks[id])
    ]_vars

----------------------------------------------------------------------------
\* C25: the completionRate of every statistics response is an integer from
\* 0 to 100, also when the caller has tasks created more than thirty days
\* ago that were completed within the last thirty days.
C25_CompletionRateInRange ==
  (resp.op = "stats" /\ resp.kind = "ok") =>
     resp.stats.completionRate \in 0..100

----------------------------------------------------------------------------
\* C26: a well-formed bulk status request succeeds whenever every supplied
\* identifier names an existing task of the caller, also when the list names
\* the same identifier more than once; it is answered NotFound only if some
\* identifier is unknown or not owned by the caller.
C26_BulkSucceedsOnOwnedIds ==
  [][ (resp = NoResp /\ resp'.op = "bulk" /\ BulkValidationOk(resp'.req)
         /\ \A i \in 1..Len(resp'.req.taskIds) :
              /\ resp'.req.taskIds[i] \in DOMAIN tasks
              /\ tasks[resp'.req.taskIds[i]].user = resp'.user)
        => resp'.kind = "ok"
    ]_vars

----------------------------------------------------------------------------
\* C27: a task created by a POST is owned by the authenticated requester
\* whatever the body contains, a user path naming another user included: the
\* new document carries the caller as its owner and the tasks of the other
\* users are the same before and after.
C27_CreatedTaskOwnedByCaller ==
  [][ (resp = NoResp /\ resp'.op = "create" /\ resp'.kind = "ok") =>
        /\ resp'.id \in DOMAIN tasks' \ DOMAIN tasks
        /\ tasks'[resp'.id].user = resp'.user
        /\ \A id \in DOMAIN tasks' :
             tasks'[id].user # resp'.user =>
               (id \in DOMAIN tasks /\ tasks[id] = tasks'[id])
    ]_vars

\* a task has been created from a body whose user path names another user
C27_Witness ==
  /\ resp.op = "create" /\ resp.kind = "ok"
  /\ resp.req.user \in Users \ {resp.user}
  /\ resp.id \in DOMAIN tasks
  /\ tasks[resp.id].user = resp.user

----------------------------------------------------------------------------
\* C28: once every call of fetchTasks, addTask, updateTask and deleteTask has
\* resolved, the local list of the TaskProvider holds exactly the server's
\* tasks of the user (no added task missing, no deleted task present, each
\* task once and as the server has it); and a call that failed leaves the
\* local list as it was.
C28_LocalListConverges ==
  [][ /\ (\A slot \in Slots : inflight'[slot].op = "none") =>
           /\ {local'[i] : i \in DOMAIN local'} =
                {[id |-> id, status |-> tasks'[id].status] :
                   id \in {r \in DOMAIN tasks' : tasks'[r].user = ClientUser}}
           /\ Len(local') =
                Cardinality({r \in DOMAIN tasks' : tasks'[r].user = ClientUser})
      /\ \A slot \in Slots :
           (inflight[slot].op # "none" /\ inflight'[slot].op = "none"
              /\ inflight[slot].error) => local' = local
    ]_vars

====
